---- MODULE Spec2Model ----
(***************************************************************************)
(* The breeding-match data layer of src/components/MatchOutcomeModal.jsx:  *)
(* createMatchRequest, updateMatchStatus, acceptMatchRequest and           *)
(* submitMatchOutcome, each an async function whose awaits on the storage  *)
(* client are separate atomic steps, run by two client sessions against    *)
(* the tables dog_match_requests and dog_match_outcomes; and the outcome   *)
(* form MatchOutcomeModal of the same file, with its handleSubmit.         *)
(***************************************************************************)
EXTENDS Integers, Sequences, FiniteSets, TLC

VARIABLES
    requests,   \* table dog_match_requests: sequence of rows, a row's id is its index
    outcomes,   \* table dog_match_outcomes: sequence of rows
    now,        \* the clock read by new Date()
    authUser,   \* the user supabase.auth.getUser() resolves to (NULL: none)
    calls,      \* per client session: the call in flight or the last one finished
    form        \* the mounted MatchOutcomeModal: props, state, onSubmit calls in flight

vars == <<requests, outcomes, now, authUser, calls, form>>

(***************************************************************************)
(* Bounds of the model.                                                    *)
(***************************************************************************)
MaxRequests == 2    \* rows dog_match_requests may hold
MaxTime == 2        \* readings of the clock
MaxPending == 2     \* onSubmit calls of the form awaited at once

(***************************************************************************)
(* Values.                                                                 *)
(***************************************************************************)
\* A missing argument, a null column (JavaScript null/undefined, falsy).
NULL == 0

\* The two client sessions issuing calls.
Sessions == {"a", "b"}

\* A record standing for "no value" in a slot of a call.
NoRec == [none |-> TRUE]

\* The status set with one more entry.
StatusSetWithArchived ==
    {"pending", "accepted", "declined", "cancelled", "awaiting_confirmation",
     "completed_success", "completed_failed", "archived"}

STATUS_SET ==
    {"pending", "accepted", "declined", "cancelled", "awaiting_confirmation",
     "completed_success", "completed_failed"}

ACTIVE_STATUS_LIST == <<"pending", "accepted", "awaiting_confirmation">>

ACTIVE_REQUEST_STATUSES == {ACTIVE_STATUS_LIST[i] : i \in DOMAIN ACTIVE_STATUS_LIST}

\* The rows of table dogs the calls read (fixture: the table is read-only here).
dogs ==
    (1 :> [id |-> 1, user_id |-> 1, gender |-> "Male"]) @@
    (2 :> [id |-> 2, user_id |-> 2, gender |-> "female"]) @@
    (3 :> [id |-> 3, user_id |-> 2, gender |-> ""])

\* String.prototype.toLowerCase on the gender values in use.
toLowerCase(s) ==
    CASE s = "Male" -> "male"
      [] s = "MALE" -> "male"
      [] s = "Female" -> "female"
      [] OTHER -> s

(***************************************************************************)
(* Errors: each named after the kind the specification gives it, valued by *)
(* the message the code throws.                                            *)
(***************************************************************************)
ErrContactRequired == "contactId is required"
ErrDogsRequired == "Both dogs must be provided to request breeding"
ErrRequesterRequired == "requesterUserId is required"
ErrSameDogs == "Dogs must be different"
ErrConflict == "MATCH_REQUEST_EXISTS"
ErrResolution == "Unable to determine the other owner. Please refresh and try again."
ErrMatchIdRequired == "matchId is required"
ErrUnsupportedStatus == "Unsupported match status"
\* The error object the storage client returns, thrown unchanged.
ErrPersistence == "storage error"

Ok(data) == [ok |-> TRUE, err |-> "", data |-> data]
Fail(e) == [ok |-> FALSE, err |-> e, data |-> NoRec]

Idle == [op |-> "none", pc |-> "idle", arg |-> NoRec, loc |-> NoRec, res |-> NoRec]

\* A call that has returned or thrown: its arguments, last locals and result.
Done(call, loc, res) == [call EXCEPT !.pc = "done", !.loc = loc, !.res = res]

\* No result is waiting to be handed to its caller.  Handing over a result
\* touches nothing shared, so it is taken at once: no interleaving of the
\* storage calls is lost by it.
NoneDone == \A x \in Sessions : calls[x].pc # "done"

Free(s) == calls[s].pc = "idle" /\ NoneDone

\* The call of session s is at step pc of function op.
At(s, op, pc) == calls[s].op = op /\ calls[s].pc = pc /\ NoneDone

\* The promise settles: the caller has the result, the session is free again.
Return(s) ==
    /\ calls[s].pc = "done"
    /\ calls' = [calls EXCEPT ![s] = Idle]
    /\ UNCHANGED <<requests, outcomes, now, authUser, form>>

(***************************************************************************)
(* The storage client.                                                     *)
(***************************************************************************)
RowIds == 1..Len(requests)

\* .eq("id", id).single(): the row, when exactly one matches.
HasRow(id) == id \in RowIds

\* Column defaults of dog_match_requests a new row gets.
RequestDefaults(t) ==
    [status |-> "pending", requested_at |-> t, accepted_at |-> NULL,
     declined_at |-> NULL, cancelled_at |-> NULL, awaiting_confirmation_at |-> NULL,
     completed_at |-> NULL, last_status_changed_at |-> NULL]

\* .insert([payload]): the payload's columns over the defaults.
InsertRow(payload, t) ==
    LET d == RequestDefaults(t)
    IN  [f \in (DOMAIN d) \cup (DOMAIN payload) |->
            IF f \in DOMAIN payload THEN payload[f] ELSE d[f]]

\* .update(patch): the patch's columns over the row.
ApplyPatch(row, patch) ==
    [f \in DOMAIN row |-> IF f \in DOMAIN patch THEN patch[f] ELSE row[f]]

\* select("id, status, requester_dog_id, requested_dog_id, requested_at")
ActiveView(id) ==
    [id |-> id, status |-> requests[id].status,
     requester_dog_id |-> requests[id].requester_dog_id,
     requested_dog_id |-> requests[id].requested_dog_id,
     requested_at |-> requests[id].requested_at]

NoRow == [id |-> NULL]

\* The rows the query of getActiveRequestForContact matches.
ActiveRows(contactId) ==
    {i \in RowIds : /\ requests[i].contact_id = contactId
                    /\ requests[i].status \in ACTIVE_REQUEST_STATUSES}

\* getActiveRequestForContact: the results the query may give (order by
\* requested_at descending, limit 1: any of the newest rows).
getActiveRequestForContact(contactId) ==
    IF contactId = NULL THEN {NoRow}
    ELSE LET m == ActiveRows(contactId)
         IN  IF m = {} THEN {NoRow}
             ELSE {ActiveView(i) : i \in
                    {j \in m : \A k \in m : requests[k].requested_at <= requests[j].requested_at}}

lookupDogOwnerId(dogId) ==
    IF dogId = NULL THEN NULL
    ELSE IF dogId \in DOMAIN dogs THEN dogs[dogId].user_id ELSE NULL

(***************************************************************************)
(* JavaScript values of the litter size and notes arguments: null, a       *)
(* string (a sequence of one-character strings) or a number.  A number is  *)
(* NaN, Infinity or the fraction num/den, den a power of ten.              *)
(***************************************************************************)
JNull == [t |-> "null"]
JStr(chars) == [t |-> "string", s |-> chars]
JNum(n) == [t |-> "number", n |-> n]

NaN == [k |-> "nan"]
Infinity == [k |-> "inf"]

RECURSIVE Fin(_, _)
\* The finite number num/den, in lowest power-of-ten terms.
Fin(num, den) ==
    IF den > 1 /\ num % 10 = 0 THEN Fin(num \div 10, den \div 10)
    ELSE [k |-> "fin", num |-> num, den |-> den]

\* Number.isFinite
isFinite(n) == n.k = "fin"

\* n < 1 (false for NaN and Infinity)
LessThanOne(n) == n.k = "fin" /\ n.num < n.den

WhiteSpace == {" ", "\t", "\n"}

RECURSIVE TrimLeft(_)
TrimLeft(cs) ==
    IF cs # <<>> /\ Head(cs) \in WhiteSpace THEN TrimLeft(Tail(cs)) ELSE cs

RECURSIVE TrimRight(_)
TrimRight(cs) ==
    IF cs # <<>> /\ cs[Len(cs)] \in WhiteSpace
    THEN TrimRight(SubSeq(cs, 1, Len(cs) - 1)) ELSE cs

\* String.prototype.trim
trim(cs) == TrimRight(TrimLeft(cs))

DigitValue ==
    ("0" :> 0) @@ ("1" :> 1) @@ ("2" :> 2) @@ ("3" :> 3) @@ ("4" :> 4) @@
    ("5" :> 5) @@ ("6" :> 6) @@ ("7" :> 7) @@ ("8" :> 8) @@ ("9" :> 9)

AllDigits(cs) == \A i \in DOMAIN cs : cs[i] \in DOMAIN DigitValue

RECURSIVE DigitsValue(_)
DigitsValue(cs) ==
    IF cs = <<>> THEN 0
    ELSE 10 * DigitsValue(SubSeq(cs, 1, Len(cs) - 1)) + DigitValue[cs[Len(cs)]]

RECURSIVE Pow10(_)
Pow10(n) == IF n = 0 THEN 1 ELSE 10 * Pow10(n - 1)

\* An unsigned decimal literal: digits, optionally a point and digits.
UnsignedDecimal(cs) ==
    LET dots == {i \in DOMAIN cs : cs[i] = "."}
    IN  IF dots = {}
        THEN IF cs # <<>> /\ AllDigits(cs) THEN Fin(DigitsValue(cs), 1) ELSE NaN
        ELSE LET d == CHOOSE i \in dots : \A j \in dots : i <= j
                 ip == SubSeq(cs, 1, d - 1)
                 fp == SubSeq(cs, d + 1, Len(cs))
             IN  IF AllDigits(ip) /\ AllDigits(fp) /\ Len(ip) + Len(fp) > 0
                 THEN Fin(DigitsValue(ip \o fp), Pow10(Len(fp)))
                 ELSE NaN

Negate(n) ==
    CASE n.k = "fin" -> [n EXCEPT !.num = 0 - n.num]
      [] n.k = "inf" -> [k |-> "-inf"]
      [] OTHER -> n

\* StringToNumber: white space trimmed, the empty string 0, a signed decimal
\* literal or Infinity; anything else NaN.
StringToNumber(cs) ==
    LET t == trim(cs)
        body == IF t # <<>> /\ Head(t) \in {"-", "+"} THEN Tail(t) ELSE t
        mag == IF body = <<"I", "n", "f", "i", "n", "i", "t", "y">> THEN Infinity
               ELSE UnsignedDecimal(body)
    IN  IF t = <<>> THEN Fin(0, 1)
        ELSE IF Head(t) = "-" THEN Negate(mag) ELSE mag

\* Number(v)
Number(v) ==
    CASE v.t = "null" -> Fin(0, 1)
      [] v.t = "number" -> v.n
      [] v.t = "string" -> StringToNumber(v.s)

\* (v || "") for a string or null v.
OrEmpty(v) == IF v.t = "string" THEN v.s ELSE <<>>

\* (cs || null) for a string cs.
OrNull(cs) == IF cs = <<>> THEN JNull ELSE JStr(cs)

(***************************************************************************)
(* createMatchRequest                                                      *)
(***************************************************************************)
CreateArg(contactId, requesterDogId, requestedDogId, requesterUserId, requestedUserId) ==
    [contactId |-> contactId, requesterDogId |-> requesterDogId,
     requestedDogId |-> requestedDogId, requesterUserId |-> requesterUserId,
     requestedUserId |-> requestedUserId]

\* The argument lists createMatchRequest is called with.
CreateInputs ==
    { CreateArg(1, 1, 2, 1, NULL),      \* dog 1 asks dog 2 in chat 1; owner looked up
      CreateArg(2, 3, 1, 2, 1),         \* dog 3 asks dog 1 in chat 2
      CreateArg(NULL, 1, 2, 1, NULL),   \* no contactId
      CreateArg(1, 1, NULL, 1, NULL),   \* a dog missing
      CreateArg(1, 1, 1, 1, NULL),      \* the same dog twice
      CreateArg(1, 1, 2, NULL, 2),      \* no requesterUserId
      CreateArg(1, 1, 9, 1, NULL) }     \* requested dog unknown: no owner found

\* The argument checks without the comparison of the two dogs.
CreateValidateNoSameDogs(a) ==
    IF a.contactId = NULL THEN ErrContactRequired
    ELSE IF a.requesterDogId = NULL \/ a.requestedDogId = NULL THEN ErrDogsRequired
    ELSE IF a.requesterUserId = NULL THEN ErrRequesterRequired
    ELSE ""

\* Lines 387-394: the argument checks, in order; "" when all pass.
CreateValidate(a) ==
    IF a.contactId = NULL THEN ErrContactRequired
    ELSE IF a.requesterDogId = NULL \/ a.requestedDogId = NULL THEN ErrDogsRequired
    ELSE IF a.requesterUserId = NULL THEN ErrRequesterRequired
    ELSE IF a.requesterDogId = a.requestedDogId THEN ErrSameDogs
    ELSE ""

\* Lines 379-396: the call, up to its first await.
CreateCall(call) ==
    LET e == CreateValidate(call.arg)
    IN  IF e # "" THEN Done(call, NoRec, Fail(e)) ELSE [call EXCEPT !.pc = "active"]

CreateStart(s) ==
    /\ Free(s)
    /\ \E a \in CreateInputs :
          calls' = [calls EXCEPT ![s] = CreateCall([Idle EXCEPT !.op = "create", !.arg = a])]
    /\ UNCHANGED <<requests, outcomes, now, authUser, form>>

\* CreateAfterActive without the test of lines 397-402.
CreateAfterActiveNoCheck(call, active) ==
    LET a == call.arg
        loc == [active |-> active, targetUserId |-> a.requestedUserId]
    IN  IF a.requestedUserId = NULL
        THEN [call EXCEPT !.pc = "owner", !.loc = loc]
        ELSE [call EXCEPT !.pc = "insert", !.loc = loc]

\* Lines 396-410 after the lookup answered with `active`.
CreateAfterActive(call, active) ==
    LET a == call.arg
        loc == [active |-> active, targetUserId |-> a.requestedUserId]
    IN  IF active.id # NULL /\ active.status \in ACTIVE_REQUEST_STATUSES
        THEN Done(call, loc, [ok |-> FALSE, err |-> ErrConflict, data |-> NoRec,
                              activeRequest |-> active])
        ELSE IF a.requestedUserId = NULL
             THEN [call EXCEPT !.pc = "owner", !.loc = loc]
             ELSE [call EXCEPT !.pc = "insert", !.loc = loc]

CreateGetActive(s) ==
    /\ At(s, "create", "active")
    /\ \E active \in getActiveRequestForContact(calls[s].arg.contactId) :
          calls' = [calls EXCEPT ![s] = CreateAfterActive(calls[s], active)]
    /\ UNCHANGED <<requests, outcomes, now, authUser, form>>

CreateLookupOwner(s) ==
    /\ At(s, "create", "owner")
    /\ LET call == calls[s]
           t == lookupDogOwnerId(call.arg.requestedDogId)
           loc == [call.loc EXCEPT !.targetUserId = t]
       IN  calls' = [calls EXCEPT ![s] =
                IF t = NULL THEN Done(call, loc, Fail(ErrResolution))
                ELSE [call EXCEPT !.pc = "insert", !.loc = loc]]
    /\ UNCHANGED <<requests, outcomes, now, authUser, form>>

\* Lines 412-419.
CreatePayload(a, targetUserId) ==
    [contact_id |-> a.contactId, requester_dog_id |-> a.requesterDogId,
     requested_dog_id |-> a.requestedDogId, requester_user_id |-> a.requesterUserId,
     requested_user_id |-> targetUserId]

CreateInsert(s) ==
    /\ At(s, "create", "insert")
    /\ Len(requests) < MaxRequests
    /\ LET call == calls[s]
           row == InsertRow(CreatePayload(call.arg, call.loc.targetUserId), now)
       IN  /\ requests' = Append(requests, row)
           /\ calls' = [calls EXCEPT ![s] = Done(call, call.loc, Ok([id |-> Len(requests) + 1]))]
    /\ UNCHANGED <<outcomes, now, authUser, form>>

(***************************************************************************)
(* updateMatchStatus and acceptMatchRequest                                *)
(***************************************************************************)
\* The values updateMatchStatus is called with as status.
StatusInputs == STATUS_SET \cup {"archived"}

\* The values the calls are given as matchId.
MatchIdInputs == {NULL, 1, 2}

\* The inputs of the two-session specification: the statuses and the match
\* two concurrent calls contend for.
RaceStatusInputs == {"pending", "accepted", "cancelled", "archived"}

RaceMatchIdInputs == {NULL, 1}

\* Lines 488-493: the timestamp column paired with a status ("" for none).
timestampFields(status) ==
    CASE status = "accepted" -> "accepted_at"
      [] status = "declined" -> "declined_at"
      [] status = "cancelled" -> "cancelled_at"
      [] status = "awaiting_confirmation" -> "awaiting_confirmation_at"
      [] OTHER -> ""

\* Whether updateMatchStatus reads the clock for this status (lines 496-499).
ReadsClock(status) ==
    timestampFields(status) # "" \/ status \in {"completed_success", "completed_failed"}

\* The patch stamping last_status_changed_at too, as acceptMatchRequest does.
UpdatePatchStampsLastChanged(status, t) ==
    LET tsField == timestampFields(status)
        p1 == [f \in {"status", "last_status_changed_at"} |->
                 IF f = "status" THEN status ELSE t]
    IN  IF tsField # "" THEN p1 @@ [f \in {tsField} |-> t]
        ELSE IF status = "completed_success" \/ status = "completed_failed"
        THEN p1 @@ [f \in {"completed_at"} |-> t]
        ELSE p1

\* Lines 494-499: the patch, t being what new Date() returns.
UpdatePatch(status, t) ==
    LET tsField == timestampFields(status)
        p1 == [f \in {"status"} |-> status]
        p2 == IF tsField # "" THEN p1 @@ [f \in {tsField} |-> t] ELSE p1
    IN  IF status = "completed_success" \/ status = "completed_failed"
        THEN p2 @@ [f \in {"completed_at"} |-> t]
        ELSE p2

\* Acceptance as a transition of its own, readiness left to a later call.
AcceptPatchAcceptedOnly(t) ==
    [status |-> "accepted", accepted_at |-> t, last_status_changed_at |-> t]

\* Lines 512-518.
AcceptPatch(t) ==
    [status |-> "awaiting_confirmation", accepted_at |-> t,
     awaiting_confirmation_at |-> t, last_status_changed_at |-> t]

\* The status of the row a call names, as the table holds it ("" for no row).
StatusOf(id) == IF HasRow(id) THEN requests[id].status ELSE ""

\* Lines 486-499: the checks, then the patch is built before the first await.
UpdateCall(s, matchId, status) ==
    /\ LET call == [Idle EXCEPT !.op = "update",
                                !.arg = [matchId |-> matchId, status |-> status]]
           t == now + 1
       IN  IF matchId = NULL
           THEN /\ calls' = [calls EXCEPT ![s] = Done(call, NoRec, Fail(ErrMatchIdRequired))]
                /\ now' = now
           ELSE IF status \notin STATUS_SET
           THEN /\ calls' = [calls EXCEPT ![s] = Done(call, NoRec, Fail(ErrUnsupportedStatus))]
                /\ now' = now
           ELSE /\ ReadsClock(status) => now < MaxTime
                /\ now' = IF ReadsClock(status) THEN t ELSE now
                /\ calls' = [calls EXCEPT ![s] =
                      [call EXCEPT !.pc = "write",
                                   !.loc = [patch |-> UpdatePatch(status, t),
                                            seen |-> StatusOf(matchId)]]]
    /\ UNCHANGED <<requests, outcomes, authUser, form>>

\* Lines 511-518.
AcceptCall(s, matchId) ==
    /\ LET call == [Idle EXCEPT !.op = "accept", !.arg = [matchId |-> matchId]]
           t == now + 1
       IN  IF matchId = NULL
           THEN /\ calls' = [calls EXCEPT ![s] = Done(call, NoRec, Fail(ErrMatchIdRequired))]
                /\ now' = now
           ELSE /\ now < MaxTime
                /\ now' = t
                /\ calls' = [calls EXCEPT ![s] =
                      [call EXCEPT !.pc = "write",
                                   !.loc = [patch |-> AcceptPatch(t),
                                            seen |-> StatusOf(matchId)]]]
    /\ UNCHANGED <<requests, outcomes, authUser, form>>

\* A session calls updateMatchStatus with a match id and a status of the sets.
UpdateStart(s, ids, statuses) ==
    /\ Free(s)
    /\ \E m \in ids, st \in statuses : UpdateCall(s, m, st)

\* A session calls acceptMatchRequest with a match id of the set.
AcceptStart(s, ids) ==
    /\ Free(s)
    /\ \E m \in ids : AcceptCall(s, m)

\* .update(patch).eq("id", matchId).select().single(): whether the write is done.
UpdateApplies(id, patch) == HasRow(id)

\* Lines 500-507 and 519-526: the one storage call of both functions.
WriteStatus(s) ==
    /\ (At(s, "update", "write") \/ At(s, "accept", "write"))
    /\ LET call == calls[s]
           id == call.arg.matchId
           loc == [call.loc EXCEPT !.seen = call.loc.seen] @@ [prev |-> StatusOf(id)]
       IN  IF UpdateApplies(id, call.loc.patch)
           THEN /\ requests' = [requests EXCEPT ![id] = ApplyPatch(@, call.loc.patch)]
                /\ calls' = [calls EXCEPT ![s] = Done(call, loc, Ok([id |-> id]))]
           ELSE /\ requests' = requests
                /\ calls' = [calls EXCEPT ![s] = Done(call, loc, Fail(ErrPersistence))]
    /\ UNCHANGED <<outcomes, now, authUser, form>>

(***************************************************************************)
(* submitMatchOutcome                                                      *)
(***************************************************************************)
ErrVerifiedDogRequired == "verifiedDogId is required"
ErrInvalidOutcome == "Invalid outcome"
ErrUnauthenticated == "Not authenticated"
ErrDogLookup == "storage error: dogs"
ErrDogNotFound == "Dog not found"
ErrNotOwner == "You can only submit outcomes for your own dog"
ErrMatchLookup == "storage error: dog_match_requests"
ErrMatchNotFound == "Match not found"
ErrNotParticipant == "Selected dog is not part of this match"
ErrForbiddenOutcome == "Male dog's owner may only submit the 'Didn't show up' outcome"
ErrInvalidLitterSize == "For success, litter size must be at least 1"
ErrNotesRequiredSuccess == "Notes are required for successful breeding"
ErrNotesRequiredNoShow == "Notes are required for no show outcome"
ErrOutcomeInsert == "storage error: dog_match_outcomes"

OUTCOMES == {"success", "failed", "no_show"}

\* The argument values submitMatchOutcome is called with.
OutcomeInputs == OUTCOMES \cup {"pregnant"}

VerifiedDogInputs == {NULL, 1, 2, 3, 9}

LitterInputs ==
    { JNull, JStr(<<"a">>), JStr(<<"0">>), JStr(<<" ", "4">>),
      JStr(<<"I", "n", "f", "i", "n", "i", "t", "y">>), JNum(Fin(15, 10)) }

NotesInputs ==
    { JNull, JStr(<<>>), JStr(<<" ", "\t">>), JStr(<<" ", "o", "k", " ">>) }

SubmitArg(matchId, outcome, verifiedDogId, litterSize, notes) ==
    [matchId |-> matchId, outcome |-> outcome, verifiedDogId |-> verifiedDogId,
     litterSize |-> litterSize, notes |-> notes]

\* SubmitValidate testing the outcome before the two ids.
SubmitValidateOutcomeFirst(a) ==
    IF a.outcome \notin OUTCOMES THEN ErrInvalidOutcome
    ELSE IF a.matchId = NULL THEN ErrMatchIdRequired
    ELSE IF a.verifiedDogId = NULL THEN ErrVerifiedDogRequired
    ELSE ""

\* Lines 555-559: the checks before the first await; "" when all pass.
SubmitValidate(a) ==
    IF a.matchId = NULL THEN ErrMatchIdRequired
    ELSE IF a.verifiedDogId = NULL THEN ErrVerifiedDogRequired
    ELSE IF a.outcome \notin OUTCOMES THEN ErrInvalidOutcome
    ELSE ""

\* The call, up to its first await; io lists the collaborators called so far.
SubmitCall(call) ==
    LET e == SubmitValidate(call.arg)
    IN  IF e # "" THEN Done(call, [io |-> <<>>], Fail(e))
        ELSE [call EXCEPT !.pc = "user", !.loc = [io |-> <<>>]]

SubmitInputs ==
    { SubmitArg(m, o, d, l, n) :
        m \in MatchIdInputs, o \in OutcomeInputs, d \in VerifiedDogInputs,
        l \in LitterInputs, n \in NotesInputs }

\* A session calls submitMatchOutcome with arguments of the set.
SubmitStartAmong(s, inputs) ==
    /\ Free(s)
    /\ \E a \in inputs :
          calls' = [calls EXCEPT ![s] = SubmitCall([Idle EXCEPT !.op = "submit", !.arg = a])]
    /\ UNCHANGED <<requests, outcomes, now, authUser, form>>

SubmitStart(s) == SubmitStartAmong(s, SubmitInputs)

\* Lines 560-565: supabase.auth.getUser().
SubmitGetUser(s) ==
    /\ At(s, "submit", "user")
    /\ LET call == calls[s]
           loc == [io |-> Append(call.loc.io, "auth.getUser"), user |-> authUser]
       IN  calls' = [calls EXCEPT ![s] =
                IF authUser = NULL THEN Done(call, loc, Fail(ErrUnauthenticated))
                ELSE [call EXCEPT !.pc = "dog", !.loc = loc]]
    /\ UNCHANGED <<requests, outcomes, now, authUser, form>>

\* .single(): the one row of the set, or an error when there is not exactly one.
single(rows) ==
    IF Cardinality(rows) = 1
    THEN [data |-> CHOOSE r \in rows : TRUE, error |-> FALSE]
    ELSE [data |-> NoRow, error |-> TRUE]

\* Lines 569-578: the verifying dog is read and must be the caller's; "" when so.
CheckDog(q, user) ==
    IF q.error THEN ErrDogLookup
    ELSE IF q.data.id = NULL THEN ErrDogNotFound
    ELSE IF q.data.user_id # user THEN ErrNotOwner
    ELSE ""

SubmitGetDog(s) ==
    /\ At(s, "submit", "dog")
    /\ LET call == calls[s]
           q == single({dogs[d] : d \in {x \in DOMAIN dogs : x = call.arg.verifiedDogId}})
           e == CheckDog(q, call.loc.user)
           loc == [call.loc EXCEPT !.io = Append(@, "dogs")] @@ [dog |-> q.data]
       IN  calls' = [calls EXCEPT ![s] =
                IF e # "" THEN Done(call, loc, Fail(e))
                ELSE [call EXCEPT !.pc = "match", !.loc = loc]]
    /\ UNCHANGED <<requests, outcomes, now, authUser, form>>

\* select("id, requester_dog_id, requested_dog_id, status")
MatchView(id) ==
    [id |-> id, requester_dog_id |-> requests[id].requester_dog_id,
     requested_dog_id |-> requests[id].requested_dog_id, status |-> requests[id].status]

\* Lines 586-593: the match is read and the dog must be one of its two; "" when so.
CheckMatch(q, verifiedDogId) ==
    IF q.error THEN ErrMatchLookup
    ELSE IF q.data.id = NULL THEN ErrMatchNotFound
    ELSE IF q.data.requester_dog_id # verifiedDogId /\ q.data.requested_dog_id # verifiedDogId
         THEN ErrNotParticipant
    ELSE ""

\* GenderGate comparing the gender as stored, without toLowerCase.
GenderGateCaseSensitive(dog, outcome) ==
    IF dog.gender = "male" /\ outcome # "no_show" THEN ErrForbiddenOutcome ELSE ""

\* Lines 595-599: the gender gate; "" when the outcome is allowed.
GenderGate(dog, outcome) ==
    LET dogGender == toLowerCase(dog.gender)
    IN  IF dogGender = "male" /\ outcome # "no_show" THEN ErrForbiddenOutcome ELSE ""

\* Normalize storing the caller's litter size for every outcome.
NormalizeKeepsLitter(outcome, litterSize, notes) ==
    LET trimmedNotes == trim(OrEmpty(notes))
        n == Number(litterSize)
    IN  CASE outcome = "success" ->
               IF ~isFinite(n) \/ LessThanOne(n)
               THEN [err |-> ErrInvalidLitterSize, finalLitterSize |-> JNull]
               ELSE IF trimmedNotes = <<>>
               THEN [err |-> ErrNotesRequiredSuccess, finalLitterSize |-> JNull]
               ELSE [err |-> "", finalLitterSize |-> JNum(n)]
          [] outcome = "no_show" /\ trimmedNotes = <<>> ->
               [err |-> ErrNotesRequiredNoShow, finalLitterSize |-> JNum(n)]
          [] OTHER -> [err |-> "", finalLitterSize |-> JNum(n)]

\* Normalize testing the notes as given, without trim.
NormalizeNoTrim(outcome, litterSize, notes) ==
    LET untrimmed == OrEmpty(notes)
        n == Number(litterSize)
    IN  CASE outcome = "success" ->
               IF ~isFinite(n) \/ LessThanOne(n)
               THEN [err |-> ErrInvalidLitterSize, finalLitterSize |-> JNull]
               ELSE IF untrimmed = <<>>
               THEN [err |-> ErrNotesRequiredSuccess, finalLitterSize |-> JNull]
               ELSE [err |-> "", finalLitterSize |-> JNum(n)]
          [] outcome = "no_show" /\ untrimmed = <<>> ->
               [err |-> ErrNotesRequiredNoShow, finalLitterSize |-> JNum(Fin(0, 1))]
          [] OTHER -> [err |-> "", finalLitterSize |-> JNum(Fin(0, 1))]

\* Lines 601-621: litter size and notes by outcome: the error, or "" with
\* the litter size to store.
Normalize(outcome, litterSize, notes) ==
    LET trimmedNotes == trim(OrEmpty(notes))
        n == Number(litterSize)
    IN  CASE outcome = "success" ->
               IF ~isFinite(n) \/ LessThanOne(n)
               THEN [err |-> ErrInvalidLitterSize, finalLitterSize |-> JNull]
               ELSE IF trimmedNotes = <<>>
               THEN [err |-> ErrNotesRequiredSuccess, finalLitterSize |-> JNull]
               ELSE [err |-> "", finalLitterSize |-> JNum(n)]
          [] outcome = "failed" ->
               [err |-> "", finalLitterSize |-> JNum(Fin(0, 1))]
          [] outcome = "no_show" ->
               IF trimmedNotes = <<>>
               THEN [err |-> ErrNotesRequiredNoShow, finalLitterSize |-> JNum(Fin(0, 1))]
               ELSE [err |-> "", finalLitterSize |-> JNum(Fin(0, 1))]
          [] OTHER -> [err |-> "", finalLitterSize |-> JNull]

\* Lines 623-630.
OutcomePayload(a, user, finalLitterSize) ==
    [match_id |-> a.matchId, verified_by_user_id |-> user,
     verified_by_dog_id |-> a.verifiedDogId, outcome |-> a.outcome,
     litter_size |-> finalLitterSize, notes |-> OrNull(trim(OrEmpty(a.notes)))]

\* Lines 581-630: the match is read, then everything up to the insert runs.
SubmitGetMatch(s) ==
    /\ At(s, "submit", "match")
    /\ LET call == calls[s]
           a == call.arg
           q == single({MatchView(i) : i \in {x \in RowIds : x = a.matchId}})
           loc == [call.loc EXCEPT !.io = Append(@, "dog_match_requests")] @@ [match |-> q.data]
           e1 == CheckMatch(q, a.verifiedDogId)
           e2 == GenderGate(call.loc.dog, a.outcome)
           nz == Normalize(a.outcome, a.litterSize, a.notes)
       IN  calls' = [calls EXCEPT ![s] =
                IF e1 # "" THEN Done(call, loc, Fail(e1))
                ELSE IF e2 # "" THEN Done(call, loc, Fail(e2))
                ELSE IF nz.err # "" THEN Done(call, loc, Fail(nz.err))
                ELSE [call EXCEPT !.pc = "insert",
                        !.loc = loc @@ [payload |->
                                  OutcomePayload(a, call.loc.user, nz.finalLitterSize)]]]
    /\ UNCHANGED <<requests, outcomes, now, authUser, form>>

\* The uniqueness constraint of dog_match_outcomes on match_id.
OutcomeUnique(payload) == \A i \in DOMAIN outcomes : outcomes[i].match_id # payload.match_id

\* SubmitInsert returning without the throw of line 637.
SubmitInsertNoThrow(s) ==
    /\ At(s, "submit", "insert")
    /\ LET call == calls[s]
           loc == [call.loc EXCEPT !.io = Append(@, "dog_match_outcomes")]
       IN  /\ outcomes' = IF OutcomeUnique(call.loc.payload)
                          THEN Append(outcomes, call.loc.payload) ELSE outcomes
           /\ calls' = [calls EXCEPT ![s] = Done(call, loc, Ok(call.loc.payload))]
    /\ UNCHANGED <<requests, now, authUser, form>>

\* SubmitInsert also moving the match to its completed status.
SubmitInsertCompletesMatch(s) ==
    /\ At(s, "submit", "insert")
    /\ LET call == calls[s]
           loc == [call.loc EXCEPT !.io = Append(@, "dog_match_outcomes")]
           st == IF call.arg.outcome = "success" THEN "completed_success"
                 ELSE "completed_failed"
       IN  IF OutcomeUnique(call.loc.payload)
           THEN /\ outcomes' = Append(outcomes, call.loc.payload)
                /\ requests' = [requests EXCEPT ![call.arg.matchId].status = st]
                /\ calls' = [calls EXCEPT ![s] = Done(call, loc, Ok(call.loc.payload))]
           ELSE /\ outcomes' = outcomes
                /\ requests' = requests
                /\ calls' = [calls EXCEPT ![s] = Done(call, loc, Fail(ErrOutcomeInsert))]
    /\ UNCHANGED <<now, authUser, form>>

\* Lines 632-638: the insert, refused by the table's constraint or done.
SubmitInsert(s) ==
    /\ At(s, "submit", "insert")
    /\ LET call == calls[s]
           loc == [call.loc EXCEPT !.io = Append(@, "dog_match_outcomes")]
       IN  IF OutcomeUnique(call.loc.payload)
           THEN /\ outcomes' = Append(outcomes, call.loc.payload)
                /\ calls' = [calls EXCEPT ![s] = Done(call, loc, Ok(call.loc.payload))]
           ELSE /\ outcomes' = outcomes
                /\ calls' = [calls EXCEPT ![s] = Done(call, loc, Fail(ErrOutcomeInsert))]
    /\ UNCHANGED <<requests, now, authUser, form>>

(***************************************************************************)
(* MatchOutcomeModal: the component stays mounted; its parent sets the     *)
(* props open and match, the user edits the fields and submits the form.   *)
(* A step is an event with the state updates and effects it causes, up to  *)
(* the next render that settles.                                           *)
(***************************************************************************)
\* The match prop: null, or the view of a match with the fields the form reads.
NoMatch == [id |-> NULL, isMaleDogOwner |-> FALSE, myDog |-> NULL]

MatchProps ==
    {NoMatch} \cup
    {[id |-> 1, isMaleDogOwner |-> b, myDog |-> d] : b \in BOOLEAN, d \in {NULL, 1}}

\* What the user may leave in the litter size and notes fields.
LitterFieldInputs == {<<>>, <<"0">>, <<"2">>}

NotesFieldInputs == {<<>>, <<" ">>, <<"o", "k">>}

\* Lines 26-38: the litter size after the effect that runs when outcome changes.
OutcomeEffect(o, v) ==
    CASE o = "failed" -> <<"0">>
      [] o = "no_show" -> <<>>
      [] OTHER ->
           LET n == Number(JStr(v))
           IN  IF v = <<>> \/ ~isFinite(n) \/ LessThanOne(n) THEN <<"1">> ELSE v

\* Lines 5-8 and the effects of the first render, open false and match null.
FormInit ==
    [open |-> FALSE, match |-> NoMatch,
     outcome |-> "success", litterSize |-> OutcomeEffect("success", <<>>), notes |-> <<>>,
     busy |-> FALSE,
     pending |-> <<>>,   \* the arguments of the onSubmit calls not yet settled
     at |-> 0,           \* the line the latest run of handleSubmit came to
     log |-> <<>>]       \* what the latest run of handleSubmit emitted and called

\* The effects without the branch for the owner of the male dog.
OpenEffectNoMaleDefault(f) ==
    IF ~f.open THEN f
    ELSE [f EXCEPT !.outcome = "success",
                   !.litterSize = IF f.outcome # "success"
                                  THEN OutcomeEffect("success", <<"1">>) ELSE <<"1">>,
                   !.notes = <<>>]

\* Lines 11-23, then 26-38 when outcome changed: the effects after a render
\* with a new open or match.
OpenEffect(f) ==
    IF ~f.open THEN f
    ELSE LET o == IF f.match.isMaleDogOwner THEN "no_show" ELSE "success"
             v == IF f.match.isMaleDogOwner THEN <<>> ELSE <<"1">>
         IN  [f EXCEPT !.outcome = o,
                       !.litterSize = IF o # f.outcome THEN OutcomeEffect(o, v) ELSE v,
                       !.notes = <<>>]

\* The parent renders the form with props open and match.
SetProps ==
    /\ \E o \in BOOLEAN, m \in MatchProps :
          /\ <<o, m>> # <<form.open, form.match>>
          /\ form' = OpenEffect([form EXCEPT !.open = o, !.match = m])
    /\ UNCHANGED <<requests, outcomes, now, authUser, calls>>

\* Line 40 and the Modal: the form is on screen.
Shown == form.open /\ form.match.id # NULL

\* Lines 157-192: the outcomes offered.
OutcomeOptions ==
    IF form.match.isMaleDogOwner THEN {"no_show"} ELSE {"success", "failed", "no_show"}

\* Lines 166 and 186, then the effect of lines 26-38.
SelectOutcome ==
    /\ Shown
    /\ \E o \in OutcomeOptions :
          /\ o # form.outcome
          /\ form' = [form EXCEPT !.outcome = o,
                                  !.litterSize = OutcomeEffect(o, form.litterSize)]
    /\ UNCHANGED <<requests, outcomes, now, authUser, calls>>

\* Lines 197-229: the litter size field, shown unless no_show, disabled when failed.
ChangeLitterSize ==
    /\ Shown
    /\ form.outcome \notin {"no_show", "failed"}
    /\ \E val \in LitterFieldInputs :
          LET n == Number(JStr(val))
          IN  form' = [form EXCEPT !.litterSize =
                          IF form.outcome = "success"
                          THEN IF ~isFinite(n) \/ LessThanOne(n) THEN <<"1">> ELSE val
                          ELSE val]
    /\ UNCHANGED <<requests, outcomes, now, authUser, calls>>

\* Line 255.
ChangeNotes ==
    /\ Shown
    /\ \E val \in NotesFieldInputs : form' = [form EXCEPT !.notes = val]
    /\ UNCHANGED <<requests, outcomes, now, authUser, calls>>

\* !notes || notes.trim().length === 0
NotesBlank(cs) == cs = <<>> \/ Len(trim(cs)) = 0

\* Lines 49-84: the line of the return that rejects the fields, 0 for none.
ClientValidate(f) ==
    IF f.outcome = "success"
           /\ (f.litterSize = <<>> \/ LessThanOne(Number(JStr(f.litterSize)))) THEN 57
    ELSE IF f.outcome = "success" /\ NotesBlank(f.notes) THEN 66
    ELSE IF f.outcome = "no_show" /\ NotesBlank(f.notes) THEN 82
    ELSE 0

\* Lines 87-103: the argument of onSubmit.
SubmitPayload(f) ==
    [matchId |-> f.match.id,
     outcome |-> f.outcome,
     verifiedDogId |-> f.match.myDog,
     litterSize |-> IF f.outcome \in {"no_show", "failed"} THEN JNum(Fin(0, 1))
                    ELSE JNum(Number(JStr(f.litterSize))),
     notes |-> JStr(trim(f.notes))]

\* handleSubmit without the return of line 44.
handleSubmitNoBusyCheck(f) ==
    LET r == ClientValidate(f)
    IN  IF r # 0 THEN [f EXCEPT !.busy = FALSE, !.at = r, !.log = <<"toast warning">>]
        ELSE [f EXCEPT !.busy = TRUE, !.at = 97, !.log = <<"onSubmit">>,
                       !.pending = Append(@, SubmitPayload(f))]

\* Lines 42-97: handleSubmit up to its await; setBusy(true) and setBusy(false)
\* of one run are rendered together.
handleSubmit(f) ==
    LET r == ClientValidate(f)
    IN  IF f.busy THEN [f EXCEPT !.at = 44]
        ELSE IF r # 0 THEN [f EXCEPT !.busy = FALSE, !.at = r, !.log = <<"toast warning">>]
        ELSE [f EXCEPT !.busy = TRUE, !.at = 97, !.log = <<"onSubmit">>,
                       !.pending = Append(@, SubmitPayload(f))]

\* A submit event of the form reaches handleSubmit.
SubmitEvent ==
    /\ Shown
    /\ Len(form.pending) < MaxPending
    /\ form' = handleSubmit(form)
    /\ UNCHANGED <<requests, outcomes, now, authUser, calls>>

\* The sequence without its i-th element.
Without(seq, i) == [j \in 1..(Len(seq) - 1) |-> IF j < i THEN seq[j] ELSE seq[j + 1]]

\* Lines 104-109 and 116-118: an awaited onSubmit resolves.
OnSubmitResolves ==
    /\ \E i \in DOMAIN form.pending :
          form' = [form EXCEPT !.pending = Without(@, i), !.busy = FALSE, !.at = 109,
                               !.log = <<"onSubmit", "toast success", "onClose">>]
    /\ UNCHANGED <<requests, outcomes, now, authUser, calls>>

\* A rejection handled as a success is: onClose called as well.
OnSubmitRejectsAndCloses ==
    /\ \E i \in DOMAIN form.pending :
          form' = [form EXCEPT !.pending = Without(@, i), !.busy = FALSE, !.at = 115,
                               !.log = <<"onSubmit", "toast error", "onClose">>]
    /\ UNCHANGED <<requests, outcomes, now, authUser, calls>>

\* Lines 110-118: an awaited onSubmit rejects.
OnSubmitRejects ==
    /\ \E i \in DOMAIN form.pending :
          form' = [form EXCEPT !.pending = Without(@, i), !.busy = FALSE, !.at = 115,
                               !.log = <<"onSubmit", "toast error">>]
    /\ UNCHANGED <<requests, outcomes, now, authUser, calls>>

(***************************************************************************)
(* mapMatchRecord: the view of a stored request for a viewing user.        *)
(***************************************************************************)
\* requester_dog:requester_dog_id(...) of MATCH_SELECT: the joined dog, and
\* what myDog?.gender || "" reads of it (nothing for a dog that is not there).
JoinedDog(dogId) ==
    IF dogId \in DOMAIN dogs
    THEN [id |-> dogId, user_id |-> dogs[dogId].user_id, gender |-> dogs[dogId].gender]
    ELSE [id |-> NULL, user_id |-> NULL, gender |-> ""]

\* A row as select(MATCH_SELECT) returns it.
MatchRow(i) ==
    [id |-> i, status |-> requests[i].status,
     requester_user_id |-> requests[i].requester_user_id,
     requested_user_id |-> requests[i].requested_user_id,
     requester_dog |-> JoinedDog(requests[i].requester_dog_id),
     requested_dog |-> JoinedDog(requests[i].requested_dog_id)]

\* The users a row is viewed by: none, either owner, a third user.
Viewers == {NULL, 1, 2, 3}

\* Lines 443-483.
mapMatchRecord(row, userId) ==
    LET myselfIsRequester == IF userId # NULL THEN row.requester_user_id = userId ELSE FALSE
        myDog == IF myselfIsRequester THEN row.requester_dog ELSE row.requested_dog
        partnerDog == IF myselfIsRequester THEN row.requested_dog ELSE row.requester_dog
        myDogGender == toLowerCase(myDog.gender)
        isCompleted == row.status = "completed_success" \/ row.status = "completed_failed"
    IN  [myDog |-> myDog,
         partnerDog |-> partnerDog,
         iAmRequester |-> myselfIsRequester,
         awaitingMyOutcome |->
             (row.status = "awaiting_confirmation"
                /\ (myDogGender = "female" \/ myDogGender = "male")),
         isMaleDogOwner |-> (myDogGender = "male"),
         requiresResponse |-> (row.status = "pending" /\ ~myselfIsRequester),
         canCancel |->
             (myselfIsRequester
                /\ (row.status = "pending" \/ row.status = "accepted"
                      \/ row.status = "awaiting_confirmation")),
         userStatus |-> row.status,
         direction |-> IF myselfIsRequester THEN "sent" ELSE "received",
         isCompleted |-> isCompleted,
         isHistory |-> (isCompleted \/ row.status = "declined" \/ row.status = "cancelled")]

Init ==
    /\ requests = <<>>
    /\ outcomes = <<>>
    /\ now = 0
    /\ authUser = NULL
    /\ calls = [s \in Sessions |-> Idle]
    /\ form = FormInit

\* Two sessions, their calls interleaving at every await.
Next ==
    \/ \E s \in Sessions : CreateStart(s)
    \/ \E s \in Sessions : CreateGetActive(s)
    \/ \E s \in Sessions : CreateLookupOwner(s)
    \/ \E s \in Sessions : CreateInsert(s)
    \/ \E s \in Sessions : UpdateStart(s, RaceMatchIdInputs, RaceStatusInputs)
    \/ \E s \in Sessions : AcceptStart(s, RaceMatchIdInputs)
    \/ \E s \in Sessions : WriteStatus(s)
    \/ \E s \in Sessions : Return(s)

Spec == Init /\ [][Next]_vars

\* One session, each call returning before the next is made, over every
\* status and match id.
NextSeq ==
    \/ CreateStart("a")
    \/ CreateGetActive("a")
    \/ CreateLookupOwner("a")
    \/ CreateInsert("a")
    \/ UpdateStart("a", MatchIdInputs, StatusInputs)
    \/ AcceptStart("a", MatchIdInputs)
    \/ WriteStatus("a")
    \/ Return("a")

SpecSeq == Init /\ [][NextSeq]_vars

(***************************************************************************)
(* Outcome submission: one session calls submitMatchOutcome, signed in as  *)
(* either owner or not at all, on a table holding the request of dog 1 to  *)
(* dog 2 as createMatchRequest left it or after one call of                *)
(* acceptMatchRequest or updateMatchStatus.                                *)
(***************************************************************************)
FirstRequest == InsertRow(CreatePayload(CreateArg(1, 1, 2, 1, NULL), 2), 0)

OutcomeInitTables ==
    {[requests |-> <<FirstRequest>>, now |-> 0]} \cup
    {[requests |-> <<ApplyPatch(FirstRequest, AcceptPatch(1))>>, now |-> 1]} \cup
    {[requests |-> <<ApplyPatch(FirstRequest, UpdatePatch(st, 1))>>,
      now |-> IF ReadsClock(st) THEN 1 ELSE 0] : st \in STATUS_SET}

InitOutcome ==
    /\ \E t \in OutcomeInitTables : requests = t.requests /\ now = t.now
    /\ outcomes = <<>>
    /\ authUser \in {NULL, 1, 2}
    /\ calls = [s \in Sessions |-> Idle]
    /\ form = FormInit

NextOutcome ==
    \/ SubmitStart("a")
    \/ SubmitGetUser("a")
    \/ SubmitGetDog("a")
    \/ SubmitGetMatch("a")
    \/ SubmitInsert("a")
    \/ Return("a")

SpecOutcome == InitOutcome /\ [][NextOutcome]_vars

(***************************************************************************)
(* The four operations together: one session, signed in as either owner or *)
(* not at all, creates requests, moves them and submits outcomes, each     *)
(* call returning before the next is made.                                 *)
(***************************************************************************)
AllSubmitInputs ==
    { SubmitArg(m, o, d, l, n) :
        m \in RaceMatchIdInputs, o \in {"success", "no_show"}, d \in {1, 2},
        l \in {JStr(<<"0">>), JNum(Fin(15, 10))}, n \in {JNull, JStr(<<"o", "k">>)} }

InitAll ==
    /\ requests = <<>>
    /\ outcomes = <<>>
    /\ now = 0
    /\ authUser \in {NULL, 1, 2}
    /\ calls = [s \in Sessions |-> Idle]
    /\ form = FormInit

NextAll ==
    \/ CreateStart("a")
    \/ CreateGetActive("a")
    \/ CreateLookupOwner("a")
    \/ CreateInsert("a")
    \/ UpdateStart("a", RaceMatchIdInputs, RaceStatusInputs)
    \/ AcceptStart("a", RaceMatchIdInputs)
    \/ WriteStatus("a")
    \/ SubmitStartAmong("a", AllSubmitInputs)
    \/ SubmitGetUser("a")
    \/ SubmitGetDog("a")
    \/ SubmitGetMatch("a")
    \/ SubmitInsert("a")
    \/ Return("a")

SpecAll == InitAll /\ [][NextAll]_vars

(***************************************************************************)
(* The outcome form.                                                       *)
(***************************************************************************)
NextForm ==
    \/ SetProps
    \/ SelectOutcome
    \/ ChangeLitterSize
    \/ ChangeNotes
    \/ SubmitEvent
    \/ OnSubmitResolves
    \/ OnSubmitRejects

\* The form alone; an onSubmit call that is awaited settles in the end.
SpecForm == Init /\ [][NextForm]_vars /\ WF_vars(OnSubmitResolves \/ OnSubmitRejects)

(***************************************************************************)
(* Helpers of the properties below.                                        *)
(***************************************************************************)
IsDone(s, op) == calls[s].op = op /\ calls[s].pc = "done"

\* The requests of a context that are pending, accepted or awaiting confirmation.
ActiveIn(ctx) ==
    {i \in DOMAIN requests :
        /\ requests[i].contact_id = ctx
        /\ requests[i].status \in {"pending", "accepted", "awaiting_confirmation"}}

Contexts == {requests[i].contact_id : i \in DOMAIN requests}

\* The edges of the lifecycle graph.
LifecycleEdges ==
    {<<"pending", "accepted">>, <<"pending", "declined">>, <<"pending", "cancelled">>,
     <<"accepted", "awaiting_confirmation">>, <<"accepted", "cancelled">>,
     <<"awaiting_confirmation", "completed_success">>,
     <<"awaiting_confirmation", "completed_failed">>,
     <<"awaiting_confirmation", "cancelled">>}

\* The dogs whose recorded gender is male, in whatever letter case.
MaleDogs == {d \in DOMAIN dogs : dogs[d].gender \in {"male", "Male", "MALE"}}

\* Notes that are missing, empty or only white space.
Blank(v) == v.t = "null" \/ (v.t = "string" /\ \A i \in DOMAIN v.s : v.s[i] \in {" ", "\t", "\n"})

\* A litter size input that is a finite number of at least 1.
LitterOk(v) == LET n == Number(v) IN n.k = "fin" /\ n.num >= n.den

\* The outcome rows stored for a match.
OutcomesOf(m) == {i \in DOMAIN outcomes : outcomes[i].match_id = m}

\* The first precondition of submitMatchOutcome an input violates, in the
\* order of the specification (0: none).
FirstViolated(a) ==
    IF a.matchId = NULL \/ a.verifiedDogId = NULL THEN 1
    ELSE IF a.outcome \notin {"success", "failed", "no_show"} THEN 2
    ELSE IF authUser = NULL THEN 3
    ELSE IF a.verifiedDogId \notin DOMAIN dogs \/ dogs[a.verifiedDogId].user_id # authUser THEN 4
    ELSE IF a.matchId \notin DOMAIN requests
            \/ a.verifiedDogId \notin {requests[a.matchId].requester_dog_id,
                                       requests[a.matchId].requested_dog_id} THEN 5
    ELSE IF a.verifiedDogId \in MaleDogs /\ a.outcome # "no_show" THEN 6
    ELSE IF a.outcome = "success" /\ ~LitterOk(a.litterSize) THEN 7
    ELSE IF a.outcome \in {"success", "no_show"} /\ Blank(a.notes) THEN 8
    ELSE 0

\* The errors of each precondition, and the collaborators called by then.
StageErrors(k) ==
    CASE k = 1 -> {ErrMatchIdRequired, ErrVerifiedDogRequired}
      [] k = 2 -> {ErrInvalidOutcome}
      [] k = 3 -> {ErrUnauthenticated}
      [] k = 4 -> {ErrDogLookup, ErrDogNotFound, ErrNotOwner}
      [] k = 5 -> {ErrMatchLookup, ErrMatchNotFound, ErrNotParticipant}
      [] k = 6 -> {ErrForbiddenOutcome}
      [] k = 7 -> {ErrInvalidLitterSize}
      [] k = 8 -> {ErrNotesRequiredSuccess, ErrNotesRequiredNoShow}
      [] OTHER -> {ErrOutcomeInsert}

StageCalls(k) ==
    CASE k \in {1, 2} -> <<>>
      [] k = 3 -> <<"auth.getUser">>
      [] k = 4 -> <<"auth.getUser", "dogs">>
      [] k \in {5, 6, 7, 8} -> <<"auth.getUser", "dogs", "dog_match_requests">>
      [] OTHER -> <<"auth.getUser", "dogs", "dog_match_requests", "dog_match_outcomes">>

(***************************************************************************)
(* C1: in every reachable state, also when the lookup and insert steps of  *)
(* two createMatchRequest calls on one context interleave, a context holds *)
(* at most one request that is pending, accepted or awaiting confirmation. *)
(***************************************************************************)
C1_OneActivePerContext == \A ctx \in Contexts : Cardinality(ActiveIn(ctx)) <= 1

(***************************************************************************)
(* C2: when the lookup of a createMatchRequest call with valid arguments   *)
(* finds the context holding a request that is pending, accepted or        *)
(* awaiting confirmation, the call ends there with the conflict error      *)
(* carrying such a request of the context, and no row is inserted.         *)
(***************************************************************************)
C2_ConflictWhenActive ==
    [][\A s \in Sessions :
          (At(s, "create", "active") /\ calls'[s] # calls[s]
              /\ ActiveIn(calls[s].arg.contactId) # {})
          => /\ calls'[s].pc = "done"
             /\ ~calls'[s].res.ok
             /\ calls'[s].res.err = ErrConflict
             /\ calls'[s].res.activeRequest.id \in ActiveIn(calls[s].arg.contactId)
             /\ requests' = requests]_vars

C2_Witness ==
    \E s \in Sessions :
        /\ IsDone(s, "create")
        /\ calls[s].res.err = ErrConflict
        /\ requests[calls[s].res.activeRequest.id].status = "awaiting_confirmation"

(***************************************************************************)
(* C3: a submitMatchOutcome call whose verifying dog is male and whose     *)
(* outcome is success or failed fails, whatever litter size and notes it   *)
(* is given, with the forbidden-outcome error once the checks before the   *)
(* gender gate have passed; every outcome row verified by a male dog has   *)
(* outcome no_show.                                                        *)
(***************************************************************************)
C3_RoleGate ==
    /\ \A s \in Sessions :
          (IsDone(s, "submit") /\ calls[s].arg.verifiedDogId \in MaleDogs
              /\ calls[s].arg.outcome \in {"success", "failed"})
          => /\ ~calls[s].res.ok
             /\ FirstViolated(calls[s].arg) = 6 => calls[s].res.err = ErrForbiddenOutcome
    /\ \A i \in DOMAIN outcomes :
          outcomes[i].verified_by_dog_id \in MaleDogs => outcomes[i].outcome = "no_show"

C3_Witness ==
    /\ IsDone("a", "submit")
    /\ calls["a"].arg.verifiedDogId \in MaleDogs
    /\ calls["a"].arg.outcome = "failed"
    /\ calls["a"].res.err = ErrForbiddenOutcome
    /\ \E i \in DOMAIN outcomes :
          outcomes[i].verified_by_dog_id \in MaleDogs /\ outcomes[i].outcome = "no_show"

(***************************************************************************)
(* C4: an acceptMatchRequest call whose write finds the match in a status  *)
(* other than pending fails.                                               *)
(***************************************************************************)
C4_AcceptOnlyFromPending ==
    \A s \in Sessions :
        (IsDone(s, "accept") /\ calls[s].arg.matchId # NULL
            /\ calls[s].loc.prev \notin {"", "pending"})
        => ~calls[s].res.ok

(***************************************************************************)
(* C5: every change of a request's status is an edge of the lifecycle      *)
(* graph, so a request that is declined, cancelled or completed keeps its  *)
(* status.                                                                 *)
(***************************************************************************)
C5_OnlyLifecycleEdges ==
    [][\A i \in DOMAIN requests :
          requests'[i].status # requests[i].status
          => <<requests[i].status, requests'[i].status>> \in LifecycleEdges]_vars

(***************************************************************************)
(* C6: a match has at most one outcome row; a submitMatchOutcome call for  *)
(* a match that already has its outcome row fails, with the storage error  *)
(* of the insert once its checks have passed, and no step changes or       *)
(* removes a stored outcome row.                                           *)
(***************************************************************************)
C6_OneOutcomePerMatch ==
    /\ [](\A m \in MatchIdInputs : Cardinality(OutcomesOf(m)) <= 1)
    /\ [](\A s \in Sessions :
            (IsDone(s, "submit") /\ OutcomesOf(calls[s].arg.matchId) # {})
            => \/ /\ calls[s].res.ok
                  /\ \E i \in OutcomesOf(calls[s].arg.matchId) :
                        outcomes[i] = calls[s].res.data
               \/ /\ ~calls[s].res.ok
                  /\ FirstViolated(calls[s].arg) = 0 => calls[s].res.err = ErrOutcomeInsert)
    /\ [][/\ \A i \in DOMAIN outcomes : i \in DOMAIN outcomes' /\ outcomes'[i] = outcomes[i]
          /\ \A s \in Sessions :
                (At(s, "submit", "insert") /\ OutcomesOf(calls[s].arg.matchId) # {})
                => (calls'[s].pc = "done" /\ ~calls'[s].res.ok /\ outcomes' = outcomes)]_vars

C6_Witness ==
    /\ IsDone("a", "submit")
    /\ calls["a"].res.err = ErrOutcomeInsert
    /\ OutcomesOf(calls["a"].arg.matchId) # {}

(***************************************************************************)
(* C7: of an accept and a cancel racing on a pending match one loses: the  *)
(* call that started on the pending match and finds at its write that the  *)
(* other, made on that request too, has already changed the status fails.  *)
(***************************************************************************)
\* The call that stamped column f of match m read its clock after the
\* request was inserted: it was made on the existing request.
StartedAfterRequest(m, f) == requests[m][f] > requests[m].requested_at

C7_OneWinner ==
    \A s \in Sessions :
        /\ (IsDone(s, "accept") /\ calls[s].arg.matchId # NULL
               /\ calls[s].loc.seen = "pending" /\ calls[s].loc.prev = "cancelled"
               /\ StartedAfterRequest(calls[s].arg.matchId, "cancelled_at"))
           => ~calls[s].res.ok
        /\ (IsDone(s, "update") /\ calls[s].arg.matchId # NULL
               /\ calls[s].arg.status = "cancelled"
               /\ calls[s].loc.seen = "pending"
               /\ calls[s].loc.prev = "awaiting_confirmation"
               /\ StartedAfterRequest(calls[s].arg.matchId, "accepted_at"))
           => ~calls[s].res.ok

(***************************************************************************)
(* C8: a stored outcome row of outcome success has a litter size of at     *)
(* least 1, one of outcome failed or no_show a litter size of 0, whatever  *)
(* litter size the call was given.                                         *)
(***************************************************************************)
C8_LitterSize ==
    \A i \in DOMAIN outcomes :
        LET l == outcomes[i].litter_size
        IN  /\ l.t = "number"
            /\ outcomes[i].outcome = "success" => (l.n.k = "fin" /\ l.n.num >= l.n.den)
            /\ outcomes[i].outcome \in {"failed", "no_show"} => (l.n.k = "fin" /\ l.n.num = 0)

C8_Witness ==
    /\ IsDone("a", "submit")
    /\ calls["a"].res.ok
    /\ calls["a"].arg.outcome = "failed"
    /\ calls["a"].arg.litterSize = JNum(Fin(15, 10))
    /\ \E i \in DOMAIN outcomes :
          outcomes[i] = calls["a"].res.data /\ outcomes[i].litter_size = JNum(Fin(0, 1))

(***************************************************************************)
(* C9: a submitMatchOutcome call of outcome success or no_show whose notes *)
(* are missing, empty or white space fails and stores nothing, with the    *)
(* notes-required error once the earlier checks have passed; a call of     *)
(* outcome failed that passes the earlier checks succeeds with such notes, *)
(* stored as null.                                                         *)
(***************************************************************************)
C9_NotesRequired ==
    \A s \in Sessions :
        IsDone(s, "submit") =>
            LET a == calls[s].arg
                r == calls[s].res
            IN  /\ (a.outcome \in {"success", "no_show"} /\ Blank(a.notes))
                   => /\ ~r.ok
                      /\ FirstViolated(a) = 8 =>
                            r.err \in {ErrNotesRequiredSuccess, ErrNotesRequiredNoShow}
                /\ (a.outcome = "failed" /\ Blank(a.notes) /\ FirstViolated(a) = 0)
                   => \/ r.ok /\ r.data.notes = JNull
                      \/ ~r.ok /\ r.err = ErrOutcomeInsert /\ OutcomesOf(a.matchId) # {}
                /\ \A i \in DOMAIN outcomes :
                      outcomes[i].outcome \in {"success", "no_show"}
                      => (outcomes[i].notes.t = "string" /\ ~Blank(outcomes[i].notes))

C9_Witness ==
    /\ IsDone("a", "submit")
    /\ calls["a"].arg.outcome = "failed"
    /\ calls["a"].arg.notes = JStr(<<" ", "\t">>)
    /\ calls["a"].res.ok
    /\ calls["a"].res.data.notes = JNull

(***************************************************************************)
(* C10: a submitMatchOutcome call ends with the error of the first         *)
(* precondition its input violates, in the order matchId and               *)
(* verifiedDogId, outcome, authentication, ownership, participation,       *)
(* gender gate, litter size, notes, having called no collaborator beyond   *)
(* those that precondition needs.                                          *)
(***************************************************************************)
C10_CheckOrder ==
    \A s \in Sessions :
        IsDone(s, "submit") =>
            LET k == FirstViolated(calls[s].arg)
            IN  /\ calls[s].res.ok => k = 0
                /\ ~calls[s].res.ok => calls[s].res.err \in StageErrors(k)
                /\ calls[s].loc.io = StageCalls(k)

C10_Witness ==
    /\ IsDone("a", "submit")
    /\ calls["a"].arg.outcome = "success"
    /\ calls["a"].arg.verifiedDogId \in MaleDogs
    /\ ~LitterOk(calls["a"].arg.litterSize)
    /\ Blank(calls["a"].arg.notes)
    /\ calls["a"].res.err = ErrForbiddenOutcome

(***************************************************************************)
(* Helpers of the status and timestamp properties.                         *)
(***************************************************************************)
\* The seven recognized status values.
RecognizedStatuses ==
    {"pending", "accepted", "declined", "cancelled", "awaiting_confirmation",
     "completed_success", "completed_failed"}

\* The timestamp columns of a request that status calls stamp.
TimestampColumns ==
    {"accepted_at", "declined_at", "cancelled_at", "awaiting_confirmation_at",
     "completed_at", "last_status_changed_at"}

\* The timestamp column paired with a status ("" for pending, which has none).
PairedColumn(st) ==
    CASE st = "accepted" -> "accepted_at"
      [] st = "declined" -> "declined_at"
      [] st = "cancelled" -> "cancelled_at"
      [] st = "awaiting_confirmation" -> "awaiting_confirmation_at"
      [] st \in {"completed_success", "completed_failed"} -> "completed_at"
      [] OTHER -> ""

\* Session s ends its call of op successfully in this step.
Succeeds(s, op) ==
    /\ calls[s].op = op /\ calls[s].pc # "done"
    /\ calls'[s].op = op /\ calls'[s].pc = "done" /\ calls'[s].res.ok

\* Session s ends a call of op with an error in this step, or fails as it
\* makes the call.
FailsNow(s, op) ==
    /\ calls[s].pc # "done"
    /\ calls'[s].op = op /\ calls'[s].pc = "done" /\ ~calls'[s].res.ok

\* Every request but request id is as it was.
OthersKept(id) ==
    /\ Len(requests') = Len(requests)
    /\ \A i \in RowIds : i # id => requests'[i] = requests[i]

(***************************************************************************)
(* C11: the write of a successful acceptMatchRequest call sets the status  *)
(* of the match to awaiting_confirmation in that one step, never to        *)
(* accepted, and stamps accepted_at, awaiting_confirmation_at and          *)
(* last_status_changed_at with the one time the call read.                 *)
(***************************************************************************)
C11_AcceptCollapsed ==
    [][\A s \in Sessions :
          Succeeds(s, "accept") =>
            LET id == calls[s].arg.matchId
                t == calls[s].loc.patch.accepted_at
            IN  /\ id \in RowIds
                /\ OthersKept(id)
                /\ requests'[id].status = "awaiting_confirmation"
                /\ t # NULL
                /\ requests'[id].accepted_at = t
                /\ requests'[id].awaiting_confirmation_at = t
                /\ requests'[id].last_status_changed_at = t]_vars

C11_Witness ==
    \E s \in Sessions :
        /\ IsDone(s, "accept") /\ calls[s].res.ok
        /\ calls[s].loc.prev = "pending"
        /\ LET r == requests[calls[s].arg.matchId]
           IN  /\ r.status = "awaiting_confirmation"
               /\ r.accepted_at = r.awaiting_confirmation_at
               /\ r.accepted_at = r.last_status_changed_at
               /\ r.accepted_at > r.requested_at

(***************************************************************************)
(* C12: an updateMatchStatus call given a match id and a status that is    *)
(* not one of the seven recognized values fails with the                   *)
(* unsupported-status error as it is made, before any storage call and     *)
(* with the table unchanged; the status of every stored request is one of  *)
(* the seven.                                                              *)
(***************************************************************************)
C12_UnsupportedStatus ==
    /\ [](\A i \in RowIds : requests[i].status \in RecognizedStatuses)
    /\ [][\A s \in Sessions :
            (/\ calls[s].pc = "idle"
             /\ calls'[s].op = "update"
             /\ calls'[s].arg.matchId # NULL
             /\ calls'[s].arg.status \notin RecognizedStatuses)
            => /\ calls'[s].pc = "done"
               /\ ~calls'[s].res.ok
               /\ calls'[s].res.err = ErrUnsupportedStatus
               /\ requests' = requests]_vars

C12_Witness ==
    \E s \in Sessions :
        /\ IsDone(s, "update")
        /\ calls[s].arg.status = "archived"
        /\ calls[s].arg.matchId \in RowIds
        /\ calls[s].res.err = ErrUnsupportedStatus

(***************************************************************************)
(* C13: a timestamp column of a request that holds a time is never given   *)
(* another value.                                                          *)
(***************************************************************************)
C13_TimestampsSetOnce ==
    [][\A i \in RowIds : \A f \in TimestampColumns :
          requests[i][f] # NULL => requests'[i][f] = requests[i][f]]_vars

(***************************************************************************)
(* C14: the write of a successful updateMatchStatus call gives the column  *)
(* paired with the new status the time the call read and leaves every      *)
(* other timestamp column of the match, and every other request, as it     *)
(* was.                                                                    *)
(***************************************************************************)
C14_StampsPairedColumn ==
    [][\A s \in Sessions :
          Succeeds(s, "update") =>
            LET id == calls[s].arg.matchId
                st == calls[s].arg.status
                col == PairedColumn(st)
            IN  /\ id \in RowIds
                /\ OthersKept(id)
                /\ requests'[id].status = st
                /\ col # "" => /\ requests'[id][col] # NULL
                               /\ requests'[id][col] = calls[s].loc.patch[col]
                /\ \A f \in (TimestampColumns \cup {"requested_at"}) \ {col} :
                      requests'[id][f] = requests[id][f]]_vars

C14_Witness ==
    \E s \in Sessions :
        /\ IsDone(s, "update") /\ calls[s].res.ok
        /\ calls[s].arg.status = "completed_failed"
        /\ LET r == requests[calls[s].arg.matchId]
           IN  /\ r.completed_at # NULL
               /\ r.accepted_at # NULL
               /\ r.completed_at > r.accepted_at
               /\ r.declined_at = NULL /\ r.cancelled_at = NULL

(***************************************************************************)
(* C15: a step in which a call of createMatchRequest, acceptMatchRequest,  *)
(* updateMatchStatus or submitMatchOutcome fails, and every step in which  *)
(* no call ends successfully, leaves requests and outcomes as they were; a *)
(* step in which a call succeeds makes the one write of that call: one     *)
(* request row appended, one request row updated, or one outcome row       *)
(* appended with the requests, the status of the match included, unchanged.*)
(***************************************************************************)
Operations == {"create", "accept", "update", "submit"}

\* The table is the old one with one row appended.
OneAppended(old, new) ==
    /\ Len(new) = Len(old) + 1
    /\ \A i \in DOMAIN old : new[i] = old[i]

C15_OneWriteOrNone ==
    [][/\ \A s \in Sessions : \A op \in Operations :
            FailsNow(s, op) => (requests' = requests /\ outcomes' = outcomes)
       /\ (requests' # requests \/ outcomes' # outcomes)
            => \E s \in Sessions : \E op \in Operations : Succeeds(s, op)
       /\ \A s \in Sessions :
            /\ Succeeds(s, "create")
                 => (OneAppended(requests, requests') /\ outcomes' = outcomes)
            /\ (Succeeds(s, "accept") \/ Succeeds(s, "update"))
                 => /\ calls[s].arg.matchId \in RowIds
                    /\ OthersKept(calls[s].arg.matchId)
                    /\ requests'[calls[s].arg.matchId] =
                          ApplyPatch(requests[calls[s].arg.matchId], calls[s].loc.patch)
                    /\ outcomes' = outcomes
            /\ Succeeds(s, "submit")
                 => /\ requests' = requests
                    /\ OneAppended(outcomes, outcomes')
                    /\ outcomes'[Len(outcomes')].match_id = calls[s].arg.matchId]_vars

C15_Witness ==
    \E s \in Sessions :
        /\ IsDone(s, "submit") /\ calls[s].res.ok
        /\ Len(outcomes) = 1
        /\ outcomes[1].match_id = calls[s].arg.matchId
        /\ requests[calls[s].arg.matchId].status = "awaiting_confirmation"

(***************************************************************************)
(* C16: a createMatchRequest call with a dog id missing, the two dog ids   *)
(* equal or requesterUserId missing fails as it is made with an            *)
(* invalid-input error, the one of its first failing argument check, and   *)
(* the table is unchanged; every stored request has two different dogs.    *)
(***************************************************************************)
InvalidInputErrors ==
    {ErrContactRequired, ErrDogsRequired, ErrRequesterRequired, ErrSameDogs}

\* The error the claim names for an argument list with a contactId.
InvalidCreateError(a) ==
    IF a.requesterDogId = NULL \/ a.requestedDogId = NULL THEN ErrDogsRequired
    ELSE IF a.requesterUserId = NULL THEN ErrRequesterRequired
    ELSE IF a.requesterDogId = a.requestedDogId THEN ErrSameDogs
    ELSE ""

C16_InvalidCreateInput ==
    /\ [](\A i \in RowIds : requests[i].requester_dog_id # requests[i].requested_dog_id)
    /\ [][\A s \in Sessions :
            (/\ calls[s].pc = "idle"
             /\ calls'[s].op = "create"
             /\ \/ InvalidCreateError(calls'[s].arg) # ""
                \/ calls'[s].arg.contactId = NULL)
            => /\ calls'[s].pc = "done"
               /\ ~calls'[s].res.ok
               /\ calls'[s].res.err \in InvalidInputErrors
               /\ calls'[s].arg.contactId # NULL
                    => calls'[s].res.err = InvalidCreateError(calls'[s].arg)
               /\ requests' = requests]_vars

C16_Witness ==
    \E s \in Sessions :
        /\ IsDone(s, "create")
        /\ calls[s].arg.requesterDogId = calls[s].arg.requestedDogId
        /\ calls[s].res.err = ErrSameDogs
        /\ Len(requests) > 0

(***************************************************************************)
(* C17: for every stored request and every viewing user, the flag          *)
(* awaitingMyOutcome of mapMatchRecord is true exactly when the status of  *)
(* the request is awaiting_confirmation, whatever the gender of the        *)
(* viewer's dog.                                                           *)
(***************************************************************************)
C17_AwaitingMyOutcome ==
    \A i \in RowIds : \A u \in Viewers :
        mapMatchRecord(MatchRow(i), u).awaitingMyOutcome
            = (requests[i].status = "awaiting_confirmation")

(***************************************************************************)
(* C18: the litter size of every stored outcome row is a number that is an *)
(* integer and not negative, whatever litter size the call was given, a    *)
(* fraction such as 1.5 included.                                          *)
(***************************************************************************)
\* A finite number that is an integer and at least 0.
IsNonNegativeInteger(n) == n.k = "fin" /\ n.num >= 0 /\ n.num % n.den = 0

C18_LitterSizeInteger ==
    \A i \in DOMAIN outcomes :
        /\ outcomes[i].litter_size.t = "number"
        /\ IsNonNegativeInteger(outcomes[i].litter_size.n)

(***************************************************************************)
(* C19: a submitMatchOutcome call on a match that is pending, accepted,    *)
(* declined, cancelled or completed does not succeed: a match that has an  *)
(* outcome row is awaiting confirmation or in a status that follows it.    *)
(***************************************************************************)
C19_OutcomeOnlyWhenAwaiting ==
    /\ \A s \in Sessions :
          (IsDone(s, "submit") /\ calls[s].res.ok)
          => requests[calls[s].arg.matchId].status = "awaiting_confirmation"
    /\ \A i \in DOMAIN outcomes :
          requests[outcomes[i].match_id].status
              \in {"awaiting_confirmation", "completed_success", "completed_failed",
                   "cancelled"}

(***************************************************************************)
(* C20: the form awaits at most one onSubmit call at a time; a submit      *)
(* event that arrives while busy is true returns at once and changes       *)
(* nothing, and no onSubmit call is made while busy is true; when a run of *)
(* handleSubmit has ended, by a rejection of the fields or by onSubmit     *)
(* resolving or rejecting, busy is false; and busy, once true, is false    *)
(* again later.                                                            *)
(***************************************************************************)
\* The lines at which a run of handleSubmit that was not ignored has ended.
AttemptEnded == {57, 66, 82, 109, 115}

C20_OneSubmitInFlight ==
    /\ [](Len(form.pending) <= 1)
    /\ [](form.at \in AttemptEnded => ~form.busy)
    /\ [](form.busy => form.pending # <<>>)
    /\ [][/\ (form'.at = 44 /\ form.at # 44)
             => (form.busy /\ form' = [form EXCEPT !.at = 44])
          /\ form.busy => Len(form'.pending) <= Len(form.pending)]_vars
    /\ (form.busy ~> ~form.busy)

C20_Witness ==
    /\ form.at = 44
    /\ form.busy
    /\ Len(form.pending) = 1
    /\ form.log = <<"onSubmit">>

(***************************************************************************)
(* C21: while the form is shown for a match whose isMaleDogOwner flag is   *)
(* true its outcome field is no_show, whatever props, selections and       *)
(* submit events came before, and every onSubmit call made for such a      *)
(* match has outcome no_show.                                              *)
(***************************************************************************)
\* An onSubmit call is made in this step: its argument is the last awaited.
CallsOnSubmit == Len(form'.pending) = Len(form.pending) + 1

C21_MaleOwnerOnlyNoShow ==
    /\ []((Shown /\ form.match.isMaleDogOwner) => form.outcome = "no_show")
    /\ [][(CallsOnSubmit /\ form.match.isMaleDogOwner)
            => form'.pending[Len(form'.pending)].outcome = "no_show"]_vars

C21_Witness ==
    /\ Shown
    /\ form.match.isMaleDogOwner
    /\ form.at = 97
    /\ Len(form.pending) = 1
    /\ form.pending[1].outcome = "no_show"
    /\ form.pending[1].matchId = form.match.id

(***************************************************************************)
(* C22: the success toast and the onClose call are made only in the step   *)
(* in which an awaited onSubmit resolves; a run of handleSubmit that       *)
(* rejects the fields calls no onSubmit and emits the warning only; the    *)
(* step in which an awaited onSubmit rejects emits the error toast, does   *)
(* not call onClose and leaves the props and the fields as they were.      *)
(***************************************************************************)
Emitted(f) == {f.log[i] : i \in DOMAIN f.log}

\* An awaited onSubmit call settles in this step.
Settles == Len(form'.pending) = Len(form.pending) - 1

C22_CloseOnlyAfterResolve ==
    /\ []((Emitted(form) \cap {"toast success", "onClose"} # {})
            => (form.at = 109 /\ form.log = <<"onSubmit", "toast success", "onClose">>))
    /\ [](form.at \in {57, 66, 82}
            => (form.log = <<"toast warning">> /\ form.pending = <<>>))
    /\ [][/\ (form'.at = 109 /\ form.at # 109)
             => (Settles /\ form.at \in {44, 97} /\ "onSubmit" \in Emitted(form))
          /\ (form'.at \in {57, 66, 82} /\ form.at # form'.at)
             => (~CallsOnSubmit /\ form'.pending = form.pending)
          /\ (form'.at = 115 /\ form.at # 115)
             => /\ Settles
                /\ form'.log = <<"onSubmit", "toast error">>
                /\ form'.open = form.open /\ form'.match = form.match
                /\ form'.outcome = form.outcome
                /\ form'.litterSize = form.litterSize
                /\ form'.notes = form.notes]_vars

C22_Witness ==
    /\ form.at = 115
    /\ form.open
    /\ form.outcome = "success"
    /\ form.notes = <<"o", "k">>
    /\ form.litterSize = <<"2">>
    /\ form.log = <<"onSubmit", "toast error">>

====
